---- MODULE Spec2Model ----
(***************************************************************************)
(* Model of src/src/main.rs: calculate_balance_changes, the validation of  *)
(* a MultiSend transaction (structural check, solvency check) and the      *)
(* projection of its balance changes (debit of the inputs with burn and    *)
(* commission, credit of the outputs, pruning of zero entries).            *)
(*                                                                         *)
(* A HashMap is a function whose domain is the set of its keys; the order  *)
(* a HashMap is iterated in is not fixed by the program (std's RandomState *)
(* seeds every map differently), so a loop that returns at the first       *)
(* failure it meets may return any of the failures.                        *)
(*                                                                         *)
(* burn_rate and commission_rate are f64 in the source.  The model draws   *)
(* them from rationals num/den that f64 represents exactly (0, 1/2, 1), so *)
(* that rate * amount and its ceil() are exact in the source as well.      *)
(***************************************************************************)
EXTENDS Integers, Sequences, FiniteSets, TLC

VARIABLES
    account_map,        \* HashMap<String, Vec<Coin>> built from original_balances;
                        \* a Vec<Coin> lists a denom once and is a map denom -> amount
    token_map,          \* HashMap<String, DenomDefinition> built from definitions
    multi_send_tx,      \* MultiSend: [inputs, outputs], each a Vec<Balance>
    pc,                 \* position in calculate_balance_changes
    validation,         \* Result of the two assert_ calls of this run
    revalidation,       \* Result of running the two assert_ calls once more
    result_balance_map, \* HashMap<String, HashMap<String, i128>> being built
    result              \* what calculate_balance_changes returns

vars == <<account_map, token_map, multi_send_tx, pc, validation, revalidation,
          result_balance_map, result>>

----------------------------------------------------------------------------
(* Bounds of the model *)

Addresses == {"a1", "a2", "iss"}
Denoms == {"d1", "d2"}

MaxAmount == 2      \* coin amounts of the transaction are 0..MaxAmount
MaxLen == 2         \* at most MaxLen Balance entries in inputs and in outputs
MaxCoins == 1       \* at most MaxCoins coins in one Balance of the transaction
LowBalance == 3     \* an account that holds little (and only d1)
HighBalance == 8    \* an account that holds much of every denom

Zero == [num |-> 0, den |-> 1]
Half == [num |-> 1, den |-> 2]
One == [num |-> 1, den |-> 1]
Rates == {Zero, Half, One}

SeqsUpTo(S, n) == UNION {[1..k -> S] : k \in 0..n}

EmptyMap == [k \in {} |-> 0]

----------------------------------------------------------------------------
(* Data model *)

Coin == [denom : Denoms, amount : 0..MaxAmount]

Balance == [address : Addresses, coins : SeqsUpTo(Coin, MaxCoins)]

MultiSend == [inputs : SeqsUpTo(Balance, MaxLen), outputs : SeqsUpTo(Balance, MaxLen)]

DenomDefinition(denom, issuer) ==
    [denom : {denom}, issuer : {issuer}, burn_rate : Rates, commission_rate : Rates]

----------------------------------------------------------------------------
(* DenomDefinition *)

\* ceil() of the non-negative rational n / d
Ceil(n, d) == (n + d - 1) \div d

burn_amount(def, amount) == Ceil(def.burn_rate.num * amount, def.burn_rate.den)

commission_amount(def, amount) ==
    Ceil(def.commission_rate.num * amount, def.commission_rate.den)

\* mutant: the burn is left out of the amount
calculated_amount_without_burn(def, amount) == amount + commission_amount(def, amount)

\* the two non-issuer sums are parameters of the source's function that it
\* never reads
calculated_amount(def, amount) ==
    amount + burn_amount(def, amount) + commission_amount(def, amount)

----------------------------------------------------------------------------
(* MultiSend *)

RECURSIVE SumCoins(_, _)
SumCoins(coins, denom) ==
    IF coins = <<>> THEN 0
    ELSE (IF Head(coins).denom = denom THEN Head(coins).amount ELSE 0)
         + SumCoins(Tail(coins), denom)

CoinDenoms(coins) == {coins[j].denom : j \in DOMAIN coins}

RECURSIVE SumDenom(_, _)
SumDenom(balances, denom) ==
    IF balances = <<>> THEN 0
    ELSE SumCoins(Head(balances).coins, denom) + SumDenom(Tail(balances), denom)

sum_amounts(balances) ==
    [d \in UNION {CoinDenoms(balances[i].coins) : i \in DOMAIN balances}
        |-> SumDenom(balances, d)]

get_inputs_amounts_per_token == sum_amounts(multi_send_tx.inputs)
get_output_amounts_per_token == sum_amounts(multi_send_tx.outputs)

RECURSIVE SumAddressDenom(_, _, _)
SumAddressDenom(balances, address, denom) ==
    IF balances = <<>> THEN 0
    ELSE (IF Head(balances).address = address
          THEN SumCoins(Head(balances).coins, denom) ELSE 0)
         + SumAddressDenom(Tail(balances), address, denom)

AddressDenoms(balances, address) ==
    UNION {CoinDenoms(balances[i].coins) :
              i \in {k \in DOMAIN balances : balances[k].address = address}}

get_amounts_per_address(balances) ==
    [a \in {balances[i].address : i \in {k \in DOMAIN balances : balances[k].coins # <<>>}}
        |-> [d \in AddressDenoms(balances, a) |-> SumAddressDenom(balances, a, d)]]

get_inputs_amounts_per_address == get_amounts_per_address(multi_send_tx.inputs)
get_outputs_amounts_per_address == get_amounts_per_address(multi_send_tx.outputs)

----------------------------------------------------------------------------
(* Results *)

Unit == [kind |-> "Ok"]
NoResult == [kind |-> "None"]
Panic == [kind |-> "Panic"]
AmountMismatch(denom) == [kind |-> "AmountMismatch", denom |-> denom]
AddressNotFound(address) == [kind |-> "AddressNotFound", address |-> address]
InsufficientBalance(address, denom) ==
    [kind |-> "InsufficientBalance", address |-> address, denom |-> denom]
Changes(balances) == [kind |-> "Ok", balances |-> balances]

\* the denoms at which the loop over input_amounts can return its Err
assert_input_output_amounts_should_same ==
    LET input_amounts == get_inputs_amounts_per_token
        output_amounts == get_output_amounts_per_token
    IN {AmountMismatch(denom) : denom \in
            {d \in DOMAIN input_amounts :
                \/ d \notin DOMAIN output_amounts
                \/ output_amounts[d] # input_amounts[d]}}

\* mutant: an address without a record is passed over
AddressErrorsNone(amounts_per_account) == {}

\* the Err of line 67, for an address met in the outer loop
AddressErrors(amounts_per_account) ==
    {AddressNotFound(address) : address \in
        {a \in DOMAIN amounts_per_account : a \notin DOMAIN account_map}}

\* mutant: the balance is compared with the input amount, without the fees
DenomErrorsWithoutFees(amounts_per_account) ==
    LET met == {q \in (DOMAIN amounts_per_account \cap DOMAIN account_map) \X Denoms :
                   q[2] \in DOMAIN amounts_per_account[q[1]]}
    IN    {Panic : p \in {q \in met : q[2] \notin DOMAIN token_map}}
     \cup {InsufficientBalance(p[1], p[2]) : p \in
              {q \in met :
                  /\ q[2] \in DOMAIN token_map
                  /\ ~ (/\ q[2] \in DOMAIN account_map[q[1]]
                        /\ account_map[q[1]][q[2]] >= amounts_per_account[q[1]][q[2]])}}

\* the panic of expect() and the Err of line 74, for an (address, denom) met
\* in the inner loop
DenomErrors(amounts_per_account) ==
    LET met == {q \in (DOMAIN amounts_per_account \cap DOMAIN account_map) \X Denoms :
                   q[2] \in DOMAIN amounts_per_account[q[1]]}
    IN    {Panic : p \in {q \in met : q[2] \notin DOMAIN token_map}}
     \cup {InsufficientBalance(p[1], p[2]) : p \in
              {q \in met :
                  /\ q[2] \in DOMAIN token_map
                  /\ ~ (/\ q[2] \in DOMAIN account_map[q[1]]
                        /\ account_map[q[1]][q[2]] >=
                             calculated_amount(token_map[q[2]],
                                               amounts_per_account[q[1]][q[2]]))}}

\* the ways the two nested loops can end other than by Ok(()): at the address
\* or the (address, denom) that the iteration meets first among the failing
assert_balances_should_bigger_than_input ==
    LET amounts_per_account == get_inputs_amounts_per_address
    IN AddressErrors(amounts_per_account) \cup DenomErrors(amounts_per_account)

----------------------------------------------------------------------------
(* calculate_balance_changes *)

\* insert-or-update of map[address][denom] by delta
AddTo(map, address, denom, delta) ==
    IF address \in DOMAIN map
    THEN [map EXCEPT ![address] =
            IF denom \in DOMAIN @ THEN [@ EXCEPT ![denom] = @ + delta]
            ELSE @ @@ (denom :> delta)]
    ELSE map @@ (address :> (denom :> delta))

Touch(map, address) ==
    IF address \in DOMAIN map THEN map ELSE map @@ (address :> EmptyMap)

Pairs(amounts_per_address) ==
    {p \in (DOMAIN amounts_per_address) \X Denoms : p[2] \in DOMAIN amounts_per_address[p[1]]}

\* mutant: the commission replaces what the issuer's entry holds
DebitStepOverwriting(map, address, denom, value) ==
    LET token_denom == token_map[denom]
        caculated_value == calculated_amount(token_denom, value)
        commission_value == commission_amount(token_denom, value)
        debited == AddTo(Touch(map, address), address, denom, 0 - caculated_value)
        issuer == token_denom.issuer
    IN IF issuer \in DOMAIN debited
       THEN [debited EXCEPT ![issuer] =
                [d \in DOMAIN @ \cup {denom} |-> IF d = denom THEN commission_value ELSE @[d]]]
       ELSE debited @@ (issuer :> (denom :> commission_value))

\* body of the loop over the inputs, for one (address, denom, value)
DebitStep(map, address, denom, value) ==
    LET token_denom == token_map[denom]
        caculated_value == calculated_amount(token_denom, value)
        commission_value == commission_amount(token_denom, value)
    IN AddTo(AddTo(Touch(map, address), address, denom, 0 - caculated_value),
             token_denom.issuer, denom, commission_value)

RECURSIVE DebitLoop(_, _, _)
DebitLoop(map, amounts, pairs) ==
    IF pairs = {} THEN map
    ELSE LET p == CHOOSE q \in pairs : TRUE
         IN DebitLoop(DebitStep(map, p[1], p[2], amounts[p[1]][p[2]]), amounts, pairs \ {p})

\* mutant: the output is credited with the fees on top (line 268, commented out)
CreditStepWithFees(map, address, denom, value) ==
    AddTo(Touch(map, address), address, denom, calculated_amount(token_map[denom], value))

\* body of the loop over the outputs, for one (address, denom, value)
CreditStep(map, address, denom, value) == AddTo(Touch(map, address), address, denom, value)

RECURSIVE CreditLoop(_, _, _)
CreditLoop(map, amounts, pairs) ==
    IF pairs = {} THEN map
    ELSE LET p == CHOOSE q \in pairs : TRUE
         IN CreditLoop(CreditStep(map, p[1], p[2], amounts[p[1]][p[2]]), amounts, pairs \ {p})

\* mutant: only the balances without coins are filtered out
NonZeroBalancesKeepingCoins(map) ==
    [a \in {x \in DOMAIN map : DOMAIN map[x] # {}} |-> map[a]]

\* the filter of zero coins, then of the balances left without coins
NonZeroBalances(map) ==
    LET coins(a) == [d \in {x \in DOMAIN map[a] : map[a][x] # 0} |-> map[a][d]]
    IN [a \in {x \in DOMAIN map : DOMAIN coins(x) # {}} |-> coins(a)]

----------------------------------------------------------------------------
(* Initial states: the arguments of one call *)

Issuer == [d \in Denoms |-> IF d = "d1" THEN "iss" ELSE "a2"]

DefaultTokenMap ==
    [d \in Denoms |->
        IF d = "d1"
        THEN [denom |-> d, issuer |-> Issuer[d], burn_rate |-> Half, commission_rate |-> Half]
        ELSE [denom |-> d, issuer |-> Issuer[d], burn_rate |-> One, commission_rate |-> Zero]]

TokenMaps ==
    {("d1" :> def) : def \in DenomDefinition("d1", Issuer["d1"])}
    \cup {("d1" :> def) @@ ("d2" :> DefaultTokenMap["d2"]) :
             def \in DenomDefinition("d1", Issuer["d1"])}

Poor == ("d1" :> LowBalance)
Rich == [d \in Denoms |-> HighBalance]

RichAccounts == [a \in Addresses |-> Rich]

AccountMaps == UNION {[S -> {Poor, Rich}] : S \in SUBSET Addresses}

\* The loops over a Vec<Balance> only add amounts up, so the order of the
\* entries of inputs and of outputs is immaterial: the initial states hold one
\* transaction of every multiset of entries, its entries in the order of Rank.
AddressRank == [a \in Addresses |-> CHOOSE i \in 1..3 : <<"a1", "a2", "iss">>[i] = a]
DenomRank == [d \in Denoms |-> CHOOSE i \in 1..2 : <<"d1", "d2">>[i] = d]

RECURSIVE CoinsRank(_)
CoinsRank(coins) ==
    IF coins = <<>> THEN 0
    ELSE 1 + Head(coins).amount + (MaxAmount + 1) * (DenomRank[Head(coins).denom] - 1)
         + (2 * (MaxAmount + 1) + 1) * CoinsRank(Tail(coins))

Rank(balance) == <<AddressRank[balance.address], CoinsRank(balance.coins)>>

Ordered(balances) ==
    \A i \in 1..(Len(balances) - 1) :
        \/ Rank(balances[i])[1] < Rank(balances[i + 1])[1]
        \/ /\ Rank(balances[i])[1] = Rank(balances[i + 1])[1]
           /\ Rank(balances[i])[2] <= Rank(balances[i + 1])[2]

Senders == {multi_send_tx.inputs[i].address : i \in DOMAIN multi_send_tx.inputs}

TxDenoms ==
    UNION {CoinDenoms(multi_send_tx.inputs[i].coins) : i \in DOMAIN multi_send_tx.inputs}
    \cup UNION {CoinDenoms(multi_send_tx.outputs[i].coins) : i \in DOMAIN multi_send_tx.outputs}

TypeOK ==
    /\ multi_send_tx \in MultiSend
    /\ pc \in {"structural", "solvency", "debit", "credit", "collect", "done"}

\* Three families of arguments: every transaction with the default definitions
\* and accounts that hold much; the transactions that pass the structural check
\* with every definition of the denoms they move; and the same transactions with
\* every account of their senders (absent, Poor or Rich).
Init ==
    /\ pc = "structural"
    /\ validation = NoResult
    /\ revalidation = NoResult
    /\ result = NoResult
    /\ result_balance_map = EmptyMap
    /\ multi_send_tx \in MultiSend
    /\ Ordered(multi_send_tx.inputs)
    /\ Ordered(multi_send_tx.outputs)
    /\ \/ /\ token_map = DefaultTokenMap
          /\ account_map = RichAccounts
       \/ /\ assert_input_output_amounts_should_same = {}
          /\ token_map \in TokenMaps
          /\ \A d \in Denoms \ TxDenoms :
                d \in DOMAIN token_map /\ token_map[d] = DefaultTokenMap[d]
          /\ account_map = RichAccounts
       \/ /\ assert_input_output_amounts_should_same = {}
          /\ token_map = DefaultTokenMap
          /\ account_map \in AccountMaps
          /\ \A a \in Addresses \ Senders :
                a \in DOMAIN account_map /\ account_map[a] = Rich

----------------------------------------------------------------------------
(* Steps of calculate_balance_changes *)

StructuralCheck ==
    /\ pc = "structural"
    /\ IF assert_input_output_amounts_should_same = {}
       THEN /\ pc' = "solvency"
            /\ UNCHANGED <<validation, result>>
       ELSE /\ \E err \in assert_input_output_amounts_should_same :
                  /\ validation' = err
                  /\ result' = err
            /\ pc' = "done"
    /\ UNCHANGED <<account_map, token_map, multi_send_tx, revalidation, result_balance_map>>

SolvencyCheck ==
    /\ pc = "solvency"
    /\ IF assert_balances_should_bigger_than_input = {}
       THEN /\ pc' = "debit"
            /\ validation' = Unit
            /\ UNCHANGED result
       ELSE /\ \E err \in assert_balances_should_bigger_than_input :
                  /\ validation' = err
                  /\ result' = err
            /\ pc' = "done"
    /\ UNCHANGED <<account_map, token_map, multi_send_tx, revalidation, result_balance_map>>

DebitInputs ==
    /\ pc = "debit"
    /\ LET input_amounts_per_account == get_inputs_amounts_per_address
       IN result_balance_map' =
            DebitLoop(EmptyMap, input_amounts_per_account, Pairs(input_amounts_per_account))
    /\ pc' = "credit"
    /\ UNCHANGED <<account_map, token_map, multi_send_tx, validation, revalidation, result>>

CreditOutputs ==
    /\ pc = "credit"
    /\ LET output_amounts_per_account == get_outputs_amounts_per_address
       IN IF \E p \in Pairs(output_amounts_per_account) : p[2] \notin DOMAIN token_map
          THEN /\ result' = Panic
               /\ pc' = "done"
               /\ UNCHANGED result_balance_map
          ELSE /\ result_balance_map' =
                    CreditLoop(result_balance_map, output_amounts_per_account,
                               Pairs(output_amounts_per_account))
               /\ pc' = "collect"
               /\ UNCHANGED result
    /\ UNCHANGED <<account_map, token_map, multi_send_tx, validation, revalidation>>

CollectResult ==
    /\ pc = "collect"
    /\ result' = Changes(NonZeroBalances(result_balance_map))
    /\ pc' = "done"
    /\ UNCHANGED <<account_map, token_map, multi_send_tx, validation, revalidation,
                   result_balance_map>>

\* mutant: the structural check is left out
ValidateWithoutStructural ==
    IF assert_balances_should_bigger_than_input # {}
    THEN assert_balances_should_bigger_than_input
    ELSE {Unit}

\* the Result of the two assert_ calls, the structural one first
Validate ==
    IF assert_input_output_amounts_should_same # {}
    THEN assert_input_output_amounts_should_same
    ELSE IF assert_balances_should_bigger_than_input # {}
         THEN assert_balances_should_bigger_than_input
         ELSE {Unit}

\* a caller validates the same arguments once more
Revalidate ==
    /\ pc = "done"
    /\ revalidation = NoResult
    /\ revalidation' \in Validate
    /\ UNCHANGED <<account_map, token_map, multi_send_tx, pc, validation,
                   result_balance_map, result>>

Next ==
    \/ StructuralCheck
    \/ SolvencyCheck
    \/ DebitInputs
    \/ CreditOutputs
    \/ CollectResult

Spec == Init /\ [][Next]_vars

NextTwice ==
    \/ Next
    \/ Revalidate

SpecTwice == Init /\ [][NextTwice]_vars

----------------------------------------------------------------------------
(* The quantities the properties speak of *)

RECURSIVE SumOver(_, _)
SumOver(f, S) ==
    IF S = {} THEN 0
    ELSE LET x == CHOOSE y \in S : TRUE IN f[x] + SumOver(f, S \ {x})

\* the least integer that is at least rate * amount
RoundUp(rate, amount) == 0 - ((0 - rate.num * amount) \div rate.den)

Min(x, y) == IF x <= y THEN x ELSE y

Accepted == pc = "done" /\ result.kind = "Ok"

Sends(a, d) ==
    \E i \in DOMAIN multi_send_tx.inputs :
        /\ multi_send_tx.inputs[i].address = a
        /\ d \in CoinDenoms(multi_send_tx.inputs[i].coins)

Receives(a, d) ==
    \E i \in DOMAIN multi_send_tx.outputs :
        /\ multi_send_tx.outputs[i].address = a
        /\ d \in CoinDenoms(multi_send_tx.outputs[i].coins)

SendersOf(d) == {a \in Addresses : Sends(a, d)}

InputOf(a, d) == SumAddressDenom(multi_send_tx.inputs, a, d)
OutputOf(a, d) == SumAddressDenom(multi_send_tx.outputs, a, d)

IsIssuer(a, d) == d \in DOMAIN token_map /\ token_map[d].issuer = a

\* the change of a's balance of d in the returned balances, 0 when there is none
Delta(a, d) ==
    IF a \in DOMAIN result.balances /\ d \in DOMAIN result.balances[a]
    THEN result.balances[a][d] ELSE 0

Listed(a, d) == a \in DOMAIN result.balances /\ d \in DOMAIN result.balances[a]

\* what the solvency check compares a balance with
Needed(a, d) ==
    InputOf(a, d) + RoundUp(token_map[d].burn_rate, InputOf(a, d))
                  + RoundUp(token_map[d].commission_rate, InputOf(a, d))

StructuralOk == \A d \in DOMAIN sum_amounts(multi_send_tx.inputs) :
                   /\ d \in DOMAIN sum_amounts(multi_send_tx.outputs)
                   /\ SumDenom(multi_send_tx.inputs, d) = SumDenom(multi_send_tx.outputs, d)

InputPairs == {p \in Addresses \X Denoms : Sends(p[1], p[2])}

----------------------------------------------------------------------------
(* Structural rejection *)

\* C1: a transaction in which, for some denom, the sum of the input amounts
\* differs from the sum of the output amounts (a denom absent from one side
\* summing to 0 there) is rejected with the amount-mismatch error.
C1_MismatchIsRejected ==
    (/\ pc # "structural"
     /\ \E d \in Denoms :
           SumDenom(multi_send_tx.inputs, d) # SumDenom(multi_send_tx.outputs, d))
    => result.kind = "AmountMismatch"

----------------------------------------------------------------------------
(* Fees *)

NonIssuerInputSum(d) ==
    SumOver([a \in Addresses |-> IF IsIssuer(a, d) THEN 0 ELSE InputOf(a, d)], Addresses)

NonIssuerOutputSum(d) ==
    SumOver([a \in Addresses |-> IF IsIssuer(a, d) THEN 0 ELSE OutputOf(a, d)], Addresses)

FeeBase(d) == Min(NonIssuerInputSum(d), NonIssuerOutputSum(d))

\* ceil(fee_base * rate * a / non_issuer_input_sum), 0 when nobody but the issuer sends
Share(rate, a, d) ==
    IF NonIssuerInputSum(d) = 0 THEN 0
    ELSE 0 - ((0 - FeeBase(d) * rate.num * InputOf(a, d))
              \div (rate.den * NonIssuerInputSum(d)))

\* C2: in an accepted transaction a sender that is not the issuer of the denom
\* pays its input amount plus its proportional shares of the burn and of the
\* commission of the capped fee base min(non_issuer_input_sum,
\* non_issuer_output_sum), each share rounded up.
C2_SharesOfCappedFeeBase ==
    Accepted =>
        \A d \in DOMAIN token_map : \A a \in SendersOf(d) :
            ~ IsIssuer(a, d) =>
                Delta(a, d) = OutputOf(a, d)
                              - (InputOf(a, d) + Share(token_map[d].burn_rate, a, d)
                                 + Share(token_map[d].commission_rate, a, d))

\* C3: in an accepted transaction the issuer of a denom that sends that denom
\* pays its input amount and nothing more, and its input adds nothing to the
\* commission it is credited: its balance changes by what it receives, less what
\* it sends, plus the commission of the other senders.
C3_IssuerPaysNoFee ==
    Accepted =>
        \A d \in DOMAIN token_map :
            LET issuer == token_map[d].issuer
                others == SendersOf(d) \ {issuer}
            IN Sends(issuer, d) =>
                 Delta(issuer, d) =
                    OutputOf(issuer, d) - InputOf(issuer, d)
                    + SumOver([a \in others |->
                                  commission_amount(token_map[d], InputOf(a, d))], others)

----------------------------------------------------------------------------
(* Solvency *)

\* the balance of d that a holds, 0 when its record lists no coin of d
BalanceOf(a, d) ==
    IF d \in DOMAIN account_map[a] THEN account_map[a][d] ELSE 0

\* a's record lists no coin of d, or one smaller than what the check needs
Lacks(a, d) == d \notin DOMAIN account_map[a] \/ account_map[a][d] < Needed(a, d)

\* the transactions the solvency claims are about: past the structural check,
\* every sender with a record, every denom sent with a definition
SolvencyDecides ==
    /\ pc = "done"
    /\ StructuralOk
    /\ \A p \in InputPairs : p[1] \in DOMAIN account_map /\ p[2] \in DOMAIN token_map

C8_MissingAddressRejected ==
    (pc = "done" /\ StructuralOk) =>
        \A p \in InputPairs :
            p[1] \notin DOMAIN account_map =>
                /\ result.kind # "Ok"
                /\ (\A q \in InputPairs :
                        \/ q[1] = p[1]
                        \/ /\ q[1] \in DOMAIN account_map
                           /\ q[2] \in DOMAIN token_map
                           /\ ~ Lacks(q[1], q[2]))
                   => result = AddressNotFound(p[1])

\* a sender without a record is named while another sender is found solvent
C8_Witness ==
    /\ pc = "done"
    /\ StructuralOk
    /\ result.kind = "AddressNotFound"
    /\ \E q \in InputPairs : q[1] # result.address /\ InputOf(q[1], q[2]) > 0
    /\ \A q \in InputPairs :
          q[1] # result.address =>
              q[1] \in DOMAIN account_map /\ ~ Lacks(q[1], q[2])

----------------------------------------------------------------------------
(* Projection *)

TotalBurn(d) ==
    IF d \in DOMAIN token_map
    THEN SumOver([a \in SendersOf(d) |-> RoundUp(token_map[d].burn_rate, InputOf(a, d))],
                 SendersOf(d))
    ELSE 0

\* C5: in an accepted transaction the changes of a denom over all addresses sum
\* to minus the burn charged to its senders: what is debited is what is credited
\* plus what is burnt, and no coin is created.
C5_Conservation ==
    Accepted =>
        \A d \in Denoms :
            SumOver([a \in Addresses |-> Delta(a, d)], Addresses) = 0 - TotalBurn(d)

\* C6: when the issuer of a denom neither sends nor receives it, an accepted
\* transaction debits every sender a + ceil(a * burn_rate) + ceil(a *
\* commission_rate) for its input a, credits the issuer the sum of the senders'
\* ceil(a * commission_rate), and credits the burn to nobody.
C6_PlainTransferFees ==
    Accepted =>
        \A d \in DOMAIN token_map :
            LET issuer == token_map[d].issuer
            IN (~ Sends(issuer, d) /\ ~ Receives(issuer, d)) =>
                 /\ \A a \in SendersOf(d) : Delta(a, d) = OutputOf(a, d) - Needed(a, d)
                 /\ Delta(issuer, d) =
                      SumOver([a \in SendersOf(d) |->
                                  RoundUp(token_map[d].commission_rate, InputOf(a, d))],
                              SendersOf(d))
                 /\ \A a \in Addresses \ (SendersOf(d) \cup {issuer}) :
                       Delta(a, d) = OutputOf(a, d)

\* two senders that each pay a burn and a commission, collected by an issuer
\* outside the transaction
C6_Witness ==
    /\ Accepted
    /\ \E d \in DOMAIN token_map :
          /\ ~ Sends(token_map[d].issuer, d)
          /\ ~ Receives(token_map[d].issuer, d)
          /\ Cardinality(SendersOf(d)) = 2
          /\ \A a \in SendersOf(d) :
                /\ RoundUp(token_map[d].commission_rate, InputOf(a, d)) > 0
                /\ RoundUp(token_map[d].burn_rate, InputOf(a, d)) > 0
          /\ Delta(token_map[d].issuer, d) >= 2

\* C7: an accepted transaction credits every address the full sum of the output
\* amounts addressed to it: the loop over the outputs adds exactly that sum to
\* every entry, and an address that neither sends the denom nor issues it ends
\* with exactly that sum.
C7_OutputsCreditedInFull ==
    Accepted =>
        \A a \in Addresses : \A d \in Denoms :
            /\ (IF a \in DOMAIN result_balance_map /\ d \in DOMAIN result_balance_map[a]
                THEN result_balance_map[a][d] ELSE 0)
               = OutputOf(a, d)
                 + (IF Sends(a, d) THEN 0 - calculated_amount(token_map[d], InputOf(a, d))
                    ELSE 0)
                 + (IF IsIssuer(a, d)
                    THEN SumOver([s \in SendersOf(d) |->
                                     commission_amount(token_map[d], InputOf(s, d))],
                                 SendersOf(d))
                    ELSE 0)
            /\ (~ Sends(a, d) /\ ~ IsIssuer(a, d)) => Delta(a, d) = OutputOf(a, d)

\* a recipient that neither sends nor issues the denom receives its outputs in
\* full although the sender pays fees
C7_Witness ==
    /\ Accepted
    /\ \E a \in Addresses : \E d \in DOMAIN token_map :
          /\ ~ Sends(a, d)
          /\ ~ IsIssuer(a, d)
          /\ Delta(a, d) = MaxAmount
          /\ Len(multi_send_tx.outputs) = 2
          /\ \A i \in 1..2 : multi_send_tx.outputs[i].address = a
          /\ TotalBurn(d) > 0

\* the commission of the senders of d when a is its issuer
CommissionTo(a, d) ==
    IF IsIssuer(a, d)
    THEN SumOver([s \in SendersOf(d) |->
                     RoundUp(token_map[d].commission_rate, InputOf(s, d))], SendersOf(d))
    ELSE 0

\* C9: the balances an accepted transaction returns hold no coin of amount 0
\* and no address without coins; an input of amount 0 leaves no entry for its
\* (address, denom) when nothing else is credited to it.
C9_NoZeroEntries ==
    Accepted =>
        /\ \A a \in DOMAIN result.balances :
              /\ DOMAIN result.balances[a] # {}
              /\ \A d \in DOMAIN result.balances[a] : result.balances[a][d] # 0
        /\ \A p \in InputPairs :
              (/\ InputOf(p[1], p[2]) = 0
               /\ OutputOf(p[1], p[2]) = 0
               /\ CommissionTo(p[1], p[2]) = 0)
              => ~ Listed(p[1], p[2])

\* an input of amount 0 next to a transfer that does change balances
C9_Witness ==
    /\ Accepted
    /\ result.balances # EmptyMap
    /\ \E p \in InputPairs :
          /\ InputOf(p[1], p[2]) = 0
          /\ p[1] \notin DOMAIN result.balances
          /\ p[1] \in DOMAIN result_balance_map
          /\ result_balance_map[p[1]][p[2]] = 0

----------------------------------------------------------------------------
(* Determinism of the validation *)

MismatchedDenoms ==
    {d \in Denoms : /\ \E a \in Addresses : Sends(a, d)
                    /\ \/ ~ \E a \in Addresses : Receives(a, d)
                       \/ SumDenom(multi_send_tx.inputs, d) # SumDenom(multi_send_tx.outputs, d)}

SolvencyViolations ==
    {<<a>> : a \in {p[1] : p \in {q \in InputPairs : q[1] \notin DOMAIN account_map}}}
    \cup {p \in InputPairs :
            /\ p[1] \in DOMAIN account_map
            /\ (p[2] \notin DOMAIN token_map \/ Lacks(p[1], p[2]))}

OneViolationAtMost ==
    IF MismatchedDenoms # {} THEN Cardinality(MismatchedDenoms) = 1
    ELSE Cardinality(SolvencyViolations) <= 1

----------------------------------------------------------------------------
(* No overdraft *)

====
